---- MODULE Spec2Model ----
(***************************************************************************)
(* Datasette (datasette/app.py): the thread-pool SQL execution bridge      *)
(* (execute, execute_against_connection_in_thread, prepare_connection),    *)
(* the row-truncation and time-limit rules of sql_operation_in_thread and  *)
(* the metadata cascade (metadata, plugin_config, get_canned_queries,      *)
(* get_canned_query) and expand_foreign_keys.                              *)
(*                                                                         *)
(* Seven specifications share the variables:                               *)
(*   Spec      the worker pool running execute calls, issued by a serial   *)
(*             or by a concurrent caller                                   *)
(*   LiveSpec  the pool with the fairness of its threads and of the driver *)
(*   SpecOp    one execute call run to completion on chosen inputs         *)
(*   SpecMeta  the metadata accessors on a chosen metadata document        *)
(*   SpecFk    expand_foreign_keys calls on chosen inputs                  *)
(*   SpecOpen  the pool with one thread and calls on every database        *)
(*   SpecAbandon  the pool with callers that abandon their calls           *)
(***************************************************************************)
EXTENDS Integers, Sequences, FiniteSets, TLC

VARIABLES
    config,        \* self.sql_time_limit_ms, self.max_returned_rows, self.page_size
    reqs,          \* the execute calls: arguments, position, future
    nreq,          \* number of execute calls issued so far
    queue,         \* ThreadPoolExecutor work queue (FIFO of call ids)
    wk,            \* per worker thread: position in in_thread / sql_operation_in_thread
    connections,   \* threading.local(): per thread, db_name -> connection
    opens,         \* per thread and db_name: sqlite3.connect calls made
    prepares,      \* per thread and db_name: prepare_connection calls made
    hook,          \* per thread and db_name: progress handler installed on the connection
    call,          \* SpecOp: the last execute call run to completion and its result
    self_metadata, \* self._metadata
    mcall,         \* SpecMeta: the last metadata() call and what it returned
    fkcall,        \* SpecFk: the last expand_foreign_keys call and what it returned
    caller         \* how the caller of execute issues its calls

vars == <<config, reqs, nreq, queue, wk, connections, opens, prepares, hook,
          call, self_metadata, mcall, fkcall, caller>>

(***************************************************************************)
(* Bounds of the model.                                                    *)
(***************************************************************************)
MaxReq == 2        \* execute calls issued in one behaviour
MaxSqlThreads == 2 \* largest configured num_sql_threads (pool size) explored
MaxRows == 13      \* rows a cursor may produce (SpecOp)

(***************************************************************************)
(* Program constants: DEFAULT_CONFIG.                                      *)
(***************************************************************************)
default_page_size == 100
max_returned_rows_default == 1000
sql_time_limit_ms_default == 1000
num_sql_threads_default == 3

\* One clock tick of the model, in milliseconds: the default time limit.
TickMs == sql_time_limit_ms_default

(***************************************************************************)
(* Python values.  An optional integer argument is a record so that None   *)
(* and 0 stay different values that are both falsy.                        *)
(***************************************************************************)
None == [isNone |-> TRUE, v |-> 0]
Some(n) == [isNone |-> FALSE, v |-> n]
Truthy(x) == ~x.isNone /\ x.v # 0

Min(a, b) == IF a < b THEN a ELSE b

\* The rows a cursor over n rows yields, in cursor order.
CursorRows(n) == [i \in 1..n |-> i]

\* cursor.fetchmany(k): at most k rows from the front.
fetchmany(rows, k) == SubSeq(rows, 1, Min(k, Len(rows)))

\* rows[:m]
Slice(rows, m) == SubSeq(rows, 1, Min(m, Len(rows)))

(***************************************************************************)
(* execute, line 494: page_size = page_size or self.page_size              *)
(***************************************************************************)
EffectivePageSize(page_size, self_page_size) ==
    IF Truthy(page_size) THEN page_size.v ELSE self_page_size

(***************************************************************************)
(* sql_operation_in_thread, lines 497-499: the time limit of the statement *)
(***************************************************************************)
TimeLimitMsIgnoreCustom(sql_time_limit_ms, custom_time_limit) ==
    sql_time_limit_ms

TimeLimitMs(sql_time_limit_ms, custom_time_limit) ==
    IF Truthy(custom_time_limit) /\ custom_time_limit.v < sql_time_limit_ms
    THEN custom_time_limit.v
    ELSE sql_time_limit_ms

(***************************************************************************)
(* sql_operation_in_thread, lines 505-507: the row cap                     *)
(***************************************************************************)
CapNoBump(max_returned_rows, page_size) == max_returned_rows

Cap(max_returned_rows, page_size) ==
    IF max_returned_rows = page_size
    THEN max_returned_rows + 1
    ELSE max_returned_rows

(***************************************************************************)
(* sql_operation_in_thread, lines 508-514 and 526-530: fetch and truncate. *)
(* cursor holds the rows the statement produces; the result records how    *)
(* many rows were fetched from it.                                         *)
(***************************************************************************)
AssembleFetchCapOnly(cursor, truncate, max_returned_rows, page_size) ==
    LET cap == Cap(max_returned_rows, page_size) IN
    IF cap # 0 /\ truncate
    THEN LET rows == fetchmany(cursor, cap) IN
         [rows |-> Slice(rows, cap), truncated |-> Len(rows) > cap,
          fetched |-> Len(rows)]
    ELSE [rows |-> cursor, truncated |-> FALSE, fetched |-> Len(cursor)]

AssembleAlwaysCap(cursor, truncate, max_returned_rows, page_size) ==
    LET cap == Cap(max_returned_rows, page_size) IN
    IF cap # 0
    THEN LET rows == fetchmany(cursor, cap + 1) IN
         [rows |-> Slice(rows, cap),
          truncated |-> truncate /\ Len(rows) > cap,
          fetched |-> Len(rows)]
    ELSE [rows |-> cursor, truncated |-> FALSE, fetched |-> Len(cursor)]

Assemble(cursor, truncate, max_returned_rows, page_size) ==
    LET cap == Cap(max_returned_rows, page_size) IN
    IF cap # 0 /\ truncate
    THEN LET rows == fetchmany(cursor, cap + 1) IN
         [rows |-> Slice(rows, cap), truncated |-> Len(rows) > cap,
          fetched |-> Len(rows)]
    ELSE [rows |-> cursor, truncated |-> FALSE, fetched |-> Len(cursor)]

(***************************************************************************)
(* Errors of the driver (sqlite3) and of datasette.utils.                  *)
(***************************************************************************)
NoError == [cls |-> "", args |-> ""]
OperationalError(msg) == [cls |-> "OperationalError", args |-> msg]
ProgrammingError(msg) == [cls |-> "ProgrammingError", args |-> msg]

\* The error sqlite raises for a statement aborted by the progress handler.
Interrupted == OperationalError("interrupted")

\* Errors a statement can raise by itself.
StatementErrors ==
    {OperationalError("no such table: t"), ProgrammingError("incorrect bindings")}

(***************************************************************************)
(* What the driver does with one statement: it yields the rows of a cursor *)
(* or raises an error.                                                     *)
(***************************************************************************)
DrvRows(n) == [raises |-> FALSE, n |-> n, err |-> NoError]
DrvRaise(e) == [raises |-> TRUE, n |-> 0, err |-> e]

(***************************************************************************)
(* The value a call resolves to: Results(rows, truncated, description), or *)
(* the exception raised.  QueryInterrupted carries (e, sql, params).       *)
(***************************************************************************)
NoOutcome ==
    [kind |-> "none", rows |-> <<>>, truncated |-> FALSE, fetched |-> 0,
     err |-> NoError, sql |-> "", params |-> "", logged |-> FALSE]

Results(a) ==
    [NoOutcome EXCEPT !.kind = "Results", !.rows = a.rows,
                      !.truncated = a.truncated, !.fetched = a.fetched]

QueryInterrupted(e, sql, params) ==
    [NoOutcome EXCEPT !.kind = "QueryInterrupted", !.err = e,
                      !.sql = sql, !.params = params]

Raised(e, logged) ==
    [NoOutcome EXCEPT !.kind = "Error", !.err = e, !.logged = logged]

(***************************************************************************)
(* sql_operation_in_thread, lines 515-524: the except clause.  Only        *)
(* sqlite3.OperationalError is caught; the interrupt sentinel becomes      *)
(* QueryInterrupted, anything else is printed when log_sql_errors is set   *)
(* and raised again.                                                       *)
(***************************************************************************)
TranslateAll(e, sql, params, log_sql_errors) ==
    IF e.cls = "OperationalError"
    THEN QueryInterrupted(e, sql, params)
    ELSE Raised(e, FALSE)

TranslateLoseSql(e, sql, params, log_sql_errors) ==
    IF e.cls = "OperationalError"
    THEN IF e.args = "interrupted"
         THEN QueryInterrupted(e, "", params)
         ELSE Raised(e, log_sql_errors)
    ELSE Raised(e, FALSE)

Translate(e, sql, params, log_sql_errors) ==
    IF e.cls = "OperationalError"
    THEN IF e.args = "interrupted"
         THEN QueryInterrupted(e, sql, params)
         ELSE Raised(e, log_sql_errors)
    ELSE Raised(e, FALSE)

(***************************************************************************)
(* sql_operation_in_thread, lines 496-530, for one behaviour of the driver.*)
(* a: the arguments of execute; cfg: the configuration; drv: what the      *)
(* driver does with the statement.                                         *)
(***************************************************************************)
SqlOperation(a, cfg, drv) ==
    IF drv.raises
    THEN Translate(drv.err, a.sql, a.params, a.log_sql_errors)
    ELSE Results(Assemble(CursorRows(drv.n), a.truncate, cfg.max_returned_rows,
                          EffectivePageSize(a.page_size, cfg.page_size)))

(***************************************************************************)
(* Datasette.__init__, lines 159-178: the databases.  A file listed in     *)
(* immutables is not mutable; the memory database has no path.             *)
(***************************************************************************)
DBNames == {"mem", "mut", "imm"}

databases(db_name) ==
    [name |-> db_name,
     is_memory |-> (db_name = "mem"),
     is_mutable |-> (db_name # "imm")]

\* Rows the statement produces on the database (the databases are not modified).
NRows(db_name, sql) == IF sql = "select 1" THEN 1 ELSE 3

(***************************************************************************)
(* Connections.  A connection is named by the thread that opened it, the   *)
(* database and the ordinal of the open on that thread; qs is how it was   *)
(* opened.                                                                 *)
(***************************************************************************)
\* A pool that has a thread for every call whatever num_sql_threads is.
WorkersUnbounded == 1..(config.num_sql_threads + 1)

\* Datasette.__init__, lines 190-192: ThreadPoolExecutor(max_workers=num_sql_threads)
Workers == 1..config.num_sql_threads

NoConn == [owner |-> 0, db |-> "", n |-> 0, qs |-> ""]

\* in_thread, lines 464-476: the connect call for a database.
ConnectQsAlwaysRo(db) ==
    IF db.is_memory THEN ":memory:" ELSE "mode=ro"

ConnectQs(db) ==
    IF db.is_memory THEN ":memory:"
    ELSE IF db.is_mutable THEN "mode=ro" ELSE "immutable=1"

\* in_thread, line 461: getattr(connections, db_name, None) on thread w.
GetConnShared(w, db_name) ==
    IF \E v \in Workers : connections[v][db_name] # NoConn
    THEN connections[CHOOSE v \in Workers : connections[v][db_name] # NoConn][db_name]
    ELSE NoConn

GetConnNoCache(w, db_name) == NoConn

GetConn(w, db_name) == connections[w][db_name]

(***************************************************************************)
(* The arguments of the execute calls the pool model issues.               *)
(***************************************************************************)
EngineArgs ==
    [db_name : {"mut"}, sql : {"select 1"}, params : {"None"},
     truncate : {TRUE}, custom_time_limit : {None}, page_size : {None},
     log_sql_errors : {TRUE}]
    \cup
    [db_name : {"mut", "mem"}, sql : {"select * from t where id > ?"},
     params : {"[5]"}, truncate : {FALSE},
     custom_time_limit : {Some(TickMs \div 2)}, page_size : {None},
     log_sql_errors : {FALSE}]

NoArgs ==
    [db_name |-> "", sql |-> "", params |-> "", truncate |-> FALSE,
     custom_time_limit |-> None, page_size |-> None, log_sql_errors |-> FALSE]

NoReq == [st |-> "unused", a |-> NoArgs, fired |-> FALSE, future |-> NoOutcome]

IdleWorker == [pc |-> "idle", r |-> 0, conn |-> NoConn, elapsed |-> 0, limit |-> 0]

DefaultConfig ==
    [sql_time_limit_ms |-> sql_time_limit_ms_default,
     max_returned_rows |-> max_returned_rows_default,
     page_size |-> default_page_size,
     num_sql_threads |-> num_sql_threads_default]

NoCall == [made |-> FALSE, a |-> NoArgs, drv |-> DrvRows(0), time_limit_ms |-> 0,
           result |-> NoOutcome]

(***************************************************************************)
(* sqlite_timelimit (datasette.utils): the progress handler installed for  *)
(* the statement asks the driver to abort once the time since installation *)
(* exceeds the limit.  It runs only when the driver reaches a checkpoint.  *)
(***************************************************************************)
HandlerFires(elapsed_ms, limit_ms) == elapsed_ms > limit_ms

(***************************************************************************)
(* run_in_executor, line 481: the future of call r is resolved with what   *)
(* in_thread returned or raised (fired: the progress handler aborted the   *)
(* statement).  The closure and its arguments are gone.                    *)
(***************************************************************************)
ResolveDropErrors(r, outcome, fired) ==
    IF outcome.kind = "Results"
    THEN [reqs EXCEPT ![r] = [NoReq EXCEPT !.st = "done", !.future = outcome,
                                           !.fired = fired]]
    ELSE reqs

\* The future is resolved; nobody awaits the future of an abandoned call.
Resolve(r, outcome, fired) ==
    [reqs EXCEPT ![r] = [NoReq EXCEPT !.st = IF reqs[r].st = "abandoned"
                                             THEN "dropped" ELSE "done",
                                      !.future = outcome,
                                      !.fired = fired]]

(***************************************************************************)
(* execute, lines 483-535: the event loop issues a call; the call is put   *)
(* on the executor's queue and the caller is suspended.  A serial caller   *)
(* awaits the result of each call before it issues the next; a concurrent  *)
(* one issues calls from several tasks.                                    *)
(***************************************************************************)
Submit(a) ==
    /\ nreq < MaxReq
    /\ caller = "serial" => \A r \in 1..MaxReq : reqs[r].st \in {"unused", "resumed"}
    /\ nreq' = nreq + 1
    /\ reqs' = [reqs EXCEPT ![nreq + 1] = [NoReq EXCEPT !.st = "queued", !.a = a]]
    /\ queue' = Append(queue, nreq + 1)
    /\ UNCHANGED <<config, wk, connections, opens, prepares, hook,
                   call, self_metadata, mcall, fkcall, caller>>

(***************************************************************************)
(* ThreadPoolExecutor worker: an idle thread takes the oldest queued call  *)
(* and runs in_thread, lines 461-479, up to the start of the statement     *)
(* (lines 497-504).  Nothing but the queue is shared with other threads,   *)
(* so the step is atomic.  A cached connection is used as it is.           *)
(* Otherwise the thread connects and prepares the connection; either step  *)
(* can raise, and then nothing is cached and the error resolves the call.  *)
(***************************************************************************)
\* The thread runs the oldest queued call and leaves it on the queue.
DequeueLeaves(w, r) ==
    /\ wk[w].pc = "idle"
    /\ queue # <<>>
    /\ r = Head(queue)
    /\ queue' = queue

Dequeue(w, r) ==
    /\ wk[w].pc = "idle"
    /\ queue # <<>>
    /\ r = Head(queue)
    /\ queue' = Tail(queue)

StartStatement(w, r, conn) ==
    /\ wk' = [wk EXCEPT ![w] = [pc |-> "executing", r |-> r, conn |-> conn,
                                elapsed |-> 0,
                                limit |-> TimeLimitMs(config.sql_time_limit_ms,
                                                      reqs[r].a.custom_time_limit)]]
    /\ hook' = [hook EXCEPT ![conn.owner][conn.db] = TRUE]
    /\ reqs' = [reqs EXCEPT ![r].st = "running"]

\* The thread connects and prepares again for a database it has a cached
\* handle for, and runs the statement on the cached handle.
InThreadCachedReopens(w) ==
    \E r \in 1..MaxReq :
        /\ Dequeue(w, r)
        /\ GetConn(w, reqs[r].a.db_name) # NoConn
        /\ opens' = [opens EXCEPT ![w][reqs[r].a.db_name] = Min(@ + 1, MaxReq)]
        /\ prepares' = [prepares EXCEPT ![w][reqs[r].a.db_name] = Min(@ + 1, MaxReq)]
        /\ StartStatement(w, r, GetConn(w, reqs[r].a.db_name))
        /\ UNCHANGED <<config, nreq, connections,
                       call, self_metadata, mcall, fkcall, caller>>

InThreadCached(w) ==
    \E r \in 1..MaxReq :
        /\ Dequeue(w, r)
        /\ GetConn(w, reqs[r].a.db_name) # NoConn
        /\ StartStatement(w, r, GetConn(w, reqs[r].a.db_name))
        /\ UNCHANGED <<config, nreq, connections, opens, prepares,
                       call, self_metadata, mcall, fkcall, caller>>

InThreadOpen(w) ==
    \E r \in 1..MaxReq :
        LET db_name == reqs[r].a.db_name
            conn == [owner |-> w, db |-> db_name, n |-> opens[w][db_name] + 1,
                     qs |-> ConnectQs(databases(db_name))] IN
        /\ Dequeue(w, r)
        /\ GetConn(w, db_name) = NoConn
        /\ opens' = [opens EXCEPT ![w][db_name] = @ + 1]
        /\ prepares' = [prepares EXCEPT ![w][db_name] = @ + 1]
        /\ connections' = [connections EXCEPT ![w][db_name] = conn]
        /\ StartStatement(w, r, conn)
        /\ UNCHANGED <<config, nreq, call, self_metadata, mcall, fkcall, caller>>

\* sqlite3.connect raises (line 472): a file that is missing or unreadable.
InThreadConnectFails(w) ==
    \E r \in 1..MaxReq :
        LET db_name == reqs[r].a.db_name IN
        /\ Dequeue(w, r)
        /\ GetConn(w, db_name) = NoConn
        /\ ~databases(db_name).is_memory
        /\ opens' = [opens EXCEPT ![w][db_name] = @ + 1]
        /\ reqs' = Resolve(r, Raised(OperationalError("unable to open database file"),
                                     FALSE), FALSE)
        /\ UNCHANGED <<config, nreq, wk, connections, prepares, hook,
                       call, self_metadata, mcall, fkcall, caller>>

\* prepare_connection raises and the handle is cached all the same.
InThreadPrepareFailsCached(w) ==
    \E r \in 1..MaxReq :
        LET db_name == reqs[r].a.db_name
            conn == [owner |-> w, db |-> db_name, n |-> opens[w][db_name] + 1,
                     qs |-> ConnectQs(databases(db_name))] IN
        /\ Dequeue(w, r)
        /\ GetConn(w, db_name) = NoConn
        /\ opens' = [opens EXCEPT ![w][db_name] = @ + 1]
        /\ prepares' = [prepares EXCEPT ![w][db_name] = @ + 1]
        /\ connections' = [connections EXCEPT ![w][db_name] = conn]
        /\ reqs' = Resolve(r, Raised(OperationalError("not authorized"), FALSE), FALSE)
        /\ UNCHANGED <<config, nreq, wk, hook,
                       call, self_metadata, mcall, fkcall, caller>>

\* prepare_connection raises (line 477): an extension that does not load,
\* a plugin hook that fails.
InThreadPrepareFails(w) ==
    \E r \in 1..MaxReq :
        LET db_name == reqs[r].a.db_name IN
        /\ Dequeue(w, r)
        /\ GetConn(w, db_name) = NoConn
        /\ opens' = [opens EXCEPT ![w][db_name] = @ + 1]
        /\ prepares' = [prepares EXCEPT ![w][db_name] = @ + 1]
        /\ reqs' = Resolve(r, Raised(OperationalError("not authorized"), FALSE), FALSE)
        /\ UNCHANGED <<config, nreq, wk, connections, hook,
                       call, self_metadata, mcall, fkcall, caller>>

(***************************************************************************)
(* The statement runs (line 504): a clock tick passes without the driver   *)
(* reaching a checkpoint.  The clock of a statement stops at the first     *)
(* tick past its deadline: later ticks change nothing the handler sees.    *)
(***************************************************************************)
Tick(w) ==
    /\ wk[w].pc = "executing"
    /\ ~HandlerFires(wk[w].elapsed * TickMs, wk[w].limit)
    /\ wk' = [wk EXCEPT ![w].elapsed = @ + 1]
    /\ UNCHANGED <<config, reqs, nreq, queue, connections, opens, prepares, hook,
                   call, self_metadata, mcall, fkcall, caller>>

(***************************************************************************)
(* The statement ends: sql_operation_in_thread returns or raises, the      *)
(* progress handler is removed (sqlite_timelimit exits), the future is     *)
(* resolved and the thread is idle again.                                  *)
(***************************************************************************)
\* The handler is removed when the statement returns its rows and stays
\* installed when the statement raises.
EndStatementKeepsHookOnError(w, drv, fired) ==
    LET r == wk[w].r IN
    /\ reqs' = Resolve(r, SqlOperation(reqs[r].a, config, drv), fired)
    /\ hook' = [hook EXCEPT ![wk[w].conn.owner][wk[w].conn.db] = drv.raises]
    /\ wk' = [wk EXCEPT ![w] = IdleWorker]
    /\ UNCHANGED <<config, nreq, queue, connections, opens, prepares,
                   call, self_metadata, mcall, fkcall, caller>>

EndStatement(w, drv, fired) ==
    LET r == wk[w].r IN
    /\ reqs' = Resolve(r, SqlOperation(reqs[r].a, config, drv), fired)
    /\ hook' = [hook EXCEPT ![wk[w].conn.owner][wk[w].conn.db] = FALSE]
    /\ wk' = [wk EXCEPT ![w] = IdleWorker]
    /\ UNCHANGED <<config, nreq, queue, connections, opens, prepares,
                   call, self_metadata, mcall, fkcall, caller>>

\* The driver reaches a checkpoint after the deadline: the handler fires and
\* the driver raises the interrupt error.
Interrupt(w) ==
    /\ wk[w].pc = "executing"
    /\ HandlerFires(wk[w].elapsed * TickMs, wk[w].limit)
    /\ EndStatement(w, DrvRaise(Interrupted), TRUE)

\* The statement finishes: the cursor yields its rows (lines 505-514).
\* The rows of the statement depend on the thread that runs it.
FinishByWorker(w) ==
    /\ wk[w].pc = "executing"
    /\ EndStatement(w, DrvRows(w), FALSE)

\* A statement ends only when no statement submitted before it is running.
FinishOldestFirst(w) ==
    /\ wk[w].pc = "executing"
    /\ \A v \in Workers : wk[v].pc = "executing" => wk[w].r <= wk[v].r
    /\ EndStatement(w, DrvRows(NRows(reqs[wk[w].r].a.db_name, reqs[wk[w].r].a.sql)),
                    FALSE)

Finish(w) ==
    /\ wk[w].pc = "executing"
    /\ EndStatement(w, DrvRows(NRows(reqs[wk[w].r].a.db_name, reqs[wk[w].r].a.sql)),
                    FALSE)

\* The statement raises an error of its own.
Fail(w, e) ==
    /\ wk[w].pc = "executing"
    /\ EndStatement(w, DrvRaise(e), FALSE)

(***************************************************************************)
(* execute, lines 533-536: the event loop resumes the suspended caller     *)
(* with the result of the future, or raises its error in the caller.       *)
(***************************************************************************)
Resume(r) ==
    /\ reqs[r].st = "done"
    /\ reqs' = [reqs EXCEPT ![r] = [NoReq EXCEPT !.st = "resumed"]]
    /\ UNCHANGED <<config, nreq, queue, wk, connections, opens, prepares, hook,
                   call, self_metadata, mcall, fkcall, caller>>

WorkerStep(w) ==
    \/ InThreadCached(w)
    \/ InThreadOpen(w)
    \/ InThreadConnectFails(w)
    \/ InThreadPrepareFails(w)
    \/ Tick(w)
    \/ Interrupt(w)
    \/ Finish(w)
    \/ \E e \in StatementErrors : Fail(w, e)

(***************************************************************************)
(* Metadata values (JSON): null, a string, or a dict from keys to values.  *)
(* Every value has the three fields, so that any two can be compared.      *)
(***************************************************************************)
VNone == [tag |-> "none", s |-> "", d |-> <<>>]
VStr(x) == [tag |-> "str", s |-> x, d |-> <<>>]
VDict(f) == [tag |-> "dict", s |-> "", d |-> f]

\* An optional string argument (database=None, table=None, key=None).
NoneS == [isNone |-> TRUE, v |-> ""]
SomeS(x) == [isNone |-> FALSE, v |-> x]

\* Python truth of a value: None, "" and {} are falsy.
Falsy(v) ==
    \/ v.tag = "none"
    \/ v.tag = "str" /\ v.s = ""
    \/ v.tag = "dict" /\ DOMAIN v.d = {}

\* key in item
Has(item, key) == item.tag = "dict" /\ key \in DOMAIN item.d

\* item.get(key)
Get(item, key) == IF Has(item, key) THEN item.d[key] ELSE VNone

\* value or {}
OrEmpty(v) == IF Falsy(v) THEN VDict(<<>>) ELSE v

EmptyMetadata == VDict(<<>>)

(***************************************************************************)
(* metadata, lines 243-255: the scopes searched, innermost first.          *)
(***************************************************************************)
SearchListGlobalFirst(md, database, table, fallback) ==
    LET dbs == OrEmpty(Get(md, "databases"))
        dbl == IF database.isNone THEN <<>>
               ELSE <<OrEmpty(Get(dbs, database.v))>>
        tbl == IF table.isNone THEN <<>>
               ELSE <<OrEmpty(Get(OrEmpty(Get(OrEmpty(Get(dbs, database.v)),
                                               "tables")), table.v))>>
        full == <<md>> \o dbl \o tbl
    IN  IF fallback THEN full ELSE SubSeq(full, 1, 1)

SearchListAlwaysCascade(md, database, table, fallback) ==
    LET dbs == OrEmpty(Get(md, "databases"))
        dbl == IF database.isNone THEN <<>>
               ELSE <<OrEmpty(Get(dbs, database.v))>>
        tbl == IF table.isNone THEN <<>>
               ELSE <<OrEmpty(Get(OrEmpty(Get(OrEmpty(Get(dbs, database.v)),
                                               "tables")), table.v))>>
    IN  tbl \o dbl \o <<md>>

SearchList(md, database, table, fallback) ==
    LET dbs == OrEmpty(Get(md, "databases"))
        dbl == IF database.isNone THEN <<>>
               ELSE <<OrEmpty(Get(dbs, database.v))>>
        tbl == IF table.isNone THEN <<>>
               ELSE <<OrEmpty(Get(OrEmpty(Get(OrEmpty(Get(dbs, database.v)),
                                               "tables")), table.v))>>
        full == tbl \o dbl \o <<md>>
    IN  IF fallback THEN full ELSE SubSeq(full, 1, 1)

\* metadata, lines 256-260: the value of the first item that has the key.
FirstWith(search_list, key) ==
    LET hits == {i \in 1..Len(search_list) : Has(search_list[i], key)} IN
    IF hits = {} THEN VNone
    ELSE search_list[CHOOSE i \in hits : \A j \in hits : i <= j].d[key]

\* metadata, lines 263-266: m = {}; for item in search_list: m.update(item)
RECURSIVE MergeFrom(_, _, _)
MergeFrom(search_list, i, m) ==
    IF i > Len(search_list) THEN m
    ELSE MergeFrom(search_list, i + 1, search_list[i].d @@ m)

\* metadata without the check of lines 240-242.
metadataUnchecked(md, key, database, table, fallback) ==
    LET search_list == SearchList(md, database, table, fallback) IN
    IF ~key.isNone
    THEN [raised |-> FALSE, value |-> FirstWith(search_list, key.v)]
    ELSE [raised |-> FALSE, value |-> VDict(MergeFrom(search_list, 1, <<>>))]

(***************************************************************************)
(* metadata, lines 235-266.  raised: the assertion of lines 240-242 fails. *)
(***************************************************************************)
metadata(md, key, database, table, fallback) ==
    IF database.isNone /\ ~table.isNone
    THEN [raised |-> TRUE, value |-> VNone]
    ELSE LET search_list == SearchList(md, database, table, fallback) IN
         IF ~key.isNone
         THEN [raised |-> FALSE, value |-> FirstWith(search_list, key.v)]
         ELSE [raised |-> FALSE, value |-> VDict(MergeFrom(search_list, 1, <<>>))]

(***************************************************************************)
(* plugin_config, lines 268-275.                                           *)
(***************************************************************************)
plugin_config(md, plugin_name, database, table, fallback) ==
    LET plugins == metadata(md, SomeS("plugins"), database, table, fallback) IN
    IF plugins.raised THEN plugins
    ELSE IF plugins.value.tag = "none" THEN [raised |-> FALSE, value |-> VNone]
    ELSE [raised |-> FALSE, value |-> Get(plugins.value, plugin_name)]

(***************************************************************************)
(* The stored document after query["name"] = query_name (line 297) on the  *)
(* dict query that metadata("queries", database, fallback=False) reached:  *)
(* with fallback=False the first item of the search list is the stored     *)
(* entry of the database, so its "queries" entry and the query in it are   *)
(* the stored objects themselves.                                          *)
(***************************************************************************)
StoreQuery(md, database_name, query_name, query) ==
    VDict([md.d EXCEPT !["databases"] =
        VDict([@.d EXCEPT ![database_name] =
            VDict([@.d EXCEPT !["queries"] =
                VDict([@.d EXCEPT ![query_name] = query])])])])

(***************************************************************************)
(* get_canned_query, lines 291-298: the value returned (None when the      *)
(* function falls off its end) and the stored document afterwards.         *)
(***************************************************************************)
get_canned_query(md, database_name, query_name) ==
    LET ret == metadata(md, SomeS("queries"), SomeS(database_name), NoneS, FALSE)
        queries == OrEmpty(ret.value)
        query == Get(queries, query_name)
    IN  IF Falsy(query) THEN [value |-> VNone, md |-> md]
        ELSE IF query.tag # "dict"
        THEN [value |-> VDict(("name" :> VStr(query_name)) @@ ("sql" :> query)),
              md |-> md]
        ELSE LET named == VDict(("name" :> VStr(query_name)) @@ query.d) IN
             [value |-> named,
              md |-> StoreQuery(md, database_name, query_name, named)]

(***************************************************************************)
(* get_canned_queries, lines 286-289: get_canned_query for every name.     *)
(* The list returned is kept as a dict from the name to the list's entry   *)
(* for that name.                                                          *)
(***************************************************************************)
RECURSIVE CannedFrom(_, _, _, _)
CannedFrom(md, database_name, names, acc) ==
    IF names = {} THEN [value |-> VDict(acc), md |-> md]
    ELSE LET name == CHOOSE n \in names : TRUE
             got == get_canned_query(md, database_name, name)
         IN  CannedFrom(got.md, database_name, names \ {name},
                        (name :> got.value) @@ acc)

get_canned_queries(md, database_name) ==
    LET ret == metadata(md, SomeS("queries"), SomeS(database_name), NoneS, FALSE)
        queries == OrEmpty(ret.value)
    IN  CannedFrom(md, database_name, DOMAIN queries.d, <<>>)

NoMCall ==
    [made |-> FALSE, op |-> "", name |-> "", key |-> NoneS, database |-> NoneS,
     table |-> NoneS, fallback |-> FALSE, raised |-> FALSE, value |-> VNone]

(***************************************************************************)
(* expand_foreign_keys: the record of a call.  params and drv are the      *)
(* order list(set(values)) came out in and what the driver did with the    *)
(* label query, for a call that issued one.                                *)
(***************************************************************************)
NoFkCall ==
    [made |-> FALSE, database |-> "", column |-> "", values |-> <<>>,
     foreign_keys |-> <<>>, label_column |-> NoneS, params |-> <<>>,
     drv |-> DrvRows(0), outcome |-> "", err |-> NoError, result |-> <<>>,
     queries |-> <<>>]

Callers == {"serial", "concurrent"}

Init ==
    /\ config \in {[DefaultConfig EXCEPT !.num_sql_threads = n] : n \in 1..MaxSqlThreads}
    /\ reqs = [r \in 1..MaxReq |-> NoReq]
    /\ nreq = 0
    /\ queue = <<>>
    /\ wk = [w \in Workers |-> IdleWorker]
    /\ connections = [w \in Workers |-> [d \in DBNames |-> NoConn]]
    /\ opens = [w \in Workers |-> [d \in DBNames |-> 0]]
    /\ prepares = [w \in Workers |-> [d \in DBNames |-> 0]]
    /\ hook = [w \in Workers |-> [d \in DBNames |-> FALSE]]
    /\ call = NoCall
    /\ self_metadata = EmptyMetadata
    /\ mcall = NoMCall
    /\ fkcall = NoFkCall
    /\ caller \in Callers

Next ==
    \/ \E a \in EngineArgs : Submit(a)
    \/ \E w \in Workers : WorkerStep(w)
    \/ \E r \in 1..MaxReq : Resume(r)

Spec == Init /\ [][Next]_vars

(***************************************************************************)
(* SpecOp: one execute call run to completion (lines 494-530) on a chosen  *)
(* configuration, chosen arguments and a chosen behaviour of the driver.   *)
(***************************************************************************)
OpConfigs ==
    [sql_time_limit_ms : {sql_time_limit_ms_default, (3 * TickMs) \div 2},
     max_returned_rows : {0, 2, 10, max_returned_rows_default},
     page_size : {2, 10, default_page_size},
     num_sql_threads : {num_sql_threads_default}]

OpArgs ==
    [db_name : {"mut"}, sql : {"select * from t where id > ?"}, params : {"[5]"},
     truncate : BOOLEAN,
     custom_time_limit : {None, Some(0), Some(TickMs \div 2), Some(TickMs),
                          Some(2 * TickMs)},
     page_size : {None, Some(0), Some(2), Some(10)},
     log_sql_errors : BOOLEAN]

OpDrivers ==
    {DrvRows(n) : n \in 0..MaxRows}
    \cup {DrvRaise(e) : e \in StatementErrors \cup {Interrupted}}

ExecuteOnce(a, drv) ==
    /\ ~call.made
    /\ call' = [made |-> TRUE, a |-> a, drv |-> drv,
                time_limit_ms |-> TimeLimitMs(config.sql_time_limit_ms,
                                              a.custom_time_limit),
                result |-> SqlOperation(a, config, drv)]
    /\ UNCHANGED <<config, reqs, nreq, queue, wk, connections, opens, prepares,
                   hook, self_metadata, mcall, fkcall, caller>>

\* The caller has its result; the next call can be made.
Return ==
    /\ call.made
    /\ call' = NoCall
    /\ UNCHANGED <<config, reqs, nreq, queue, wk, connections, opens, prepares,
                   hook, self_metadata, mcall, fkcall, caller>>

InitOp ==
    /\ config \in OpConfigs
    /\ reqs = [r \in 1..MaxReq |-> NoReq]
    /\ nreq = 0
    /\ queue = <<>>
    /\ wk = [w \in Workers |-> IdleWorker]
    /\ connections = [w \in Workers |-> [d \in DBNames |-> NoConn]]
    /\ opens = [w \in Workers |-> [d \in DBNames |-> 0]]
    /\ prepares = [w \in Workers |-> [d \in DBNames |-> 0]]
    /\ hook = [w \in Workers |-> [d \in DBNames |-> FALSE]]
    /\ call = NoCall
    /\ self_metadata = EmptyMetadata
    /\ mcall = NoMCall
    /\ fkcall = NoFkCall
    /\ caller = "concurrent"

NextOp ==
    \/ \E a \in OpArgs, drv \in OpDrivers : ExecuteOnce(a, drv)
    \/ Return

SpecOp == InitOp /\ [][NextOp]_vars

\* The arguments and configuration of the completed call of SpecOp.
CallPageSize == EffectivePageSize(call.a.page_size, config.page_size)
CallRows == call.made /\ ~call.drv.raises
CallCursor == CursorRows(call.drv.n)

(***************************************************************************)
(* C5 as stated: the limit is min(custom_time_limit, sql_time_limit_ms)    *)
(* for every request that specifies a custom_time_limit, and               *)
(* sql_time_limit_ms when it specifies none.                               *)
(***************************************************************************)
C5_Original ==
    call.made =>
        call.time_limit_ms =
            IF call.a.custom_time_limit.isNone
            THEN config.sql_time_limit_ms
            ELSE Min(call.a.custom_time_limit.v, config.sql_time_limit_ms)

(***************************************************************************)
(* C5 amended: the limit is min(custom_time_limit, sql_time_limit_ms) for  *)
(* every request whose custom_time_limit is given and not 0, and           *)
(* sql_time_limit_ms when it is None or 0; (500, 1000) gives 500 and       *)
(* (2000, 1000) gives 1000.                                                *)
(***************************************************************************)
C5_TimeLimit ==
    call.made =>
        /\ call.time_limit_ms =
              IF call.a.custom_time_limit.isNone \/ call.a.custom_time_limit.v = 0
              THEN config.sql_time_limit_ms
              ELSE Min(call.a.custom_time_limit.v, config.sql_time_limit_ms)
        /\ (call.a.custom_time_limit = Some(500) /\ config.sql_time_limit_ms = 1000)
              => call.time_limit_ms = 500
        /\ (call.a.custom_time_limit = Some(2000) /\ config.sql_time_limit_ms = 1000)
              => call.time_limit_ms = 1000

C5_Witness ==
    /\ call.made
    /\ call.a.custom_time_limit = Some(500)
    /\ config.sql_time_limit_ms = 1000
    /\ call.time_limit_ms = 500

(***************************************************************************)
(* C6 as stated: with max_rows = 10, page_size = 10 and truncate, 11 rows  *)
(* give truncated = True with 10 rows returned, and 10 rows give           *)
(* truncated = False with 10 rows returned.                                *)
(***************************************************************************)
C6_Original ==
    (CallRows /\ call.a.truncate /\ config.max_returned_rows = 10 /\ CallPageSize = 10)
    => /\ call.drv.n = 11 =>
            (call.result.truncated /\ Len(call.result.rows) = 10)
       /\ call.drv.n = 10 =>
            (~call.result.truncated /\ Len(call.result.rows) = 10)

(***************************************************************************)
(* C6 amended: with max_rows = 10, page_size = 10 and truncate, 11 rows    *)
(* give truncated = False with 11 rows returned (12 rows are the first to  *)
(* give truncated = True, with 11 rows returned), and 10 rows give         *)
(* truncated = False with 10 rows returned.                                *)
(***************************************************************************)
C6_Boundary ==
    (CallRows /\ call.a.truncate /\ config.max_returned_rows = 10 /\ CallPageSize = 10)
    => /\ call.drv.n = 12 =>
            (call.result.truncated /\ call.result.rows = CursorRows(11))
       /\ call.drv.n = 11 =>
            (~call.result.truncated /\ call.result.rows = CursorRows(11))
       /\ call.drv.n = 10 =>
            (~call.result.truncated /\ call.result.rows = CursorRows(10))

C6_Witness ==
    /\ CallRows /\ call.a.truncate
    /\ config.max_returned_rows = 10 /\ CallPageSize = 10
    /\ call.drv.n = 11
    /\ call.result.kind = "Results"
    /\ ~call.result.truncated
    /\ Len(call.result.rows) = 11

(***************************************************************************)
(* C7: with truncate and a non-zero max_returned_rows the cap is           *)
(* max_returned_rows + 1 if max_returned_rows equals the page size and     *)
(* max_returned_rows otherwise; at most cap + 1 rows are fetched, the      *)
(* result is the first min(cap, available) rows in cursor order, and       *)
(* truncated is true exactly when more than cap rows were available.       *)
(***************************************************************************)
C7_Cap ==
    IF config.max_returned_rows = CallPageSize
    THEN config.max_returned_rows + 1
    ELSE config.max_returned_rows

C7_Truncation ==
    (CallRows /\ call.a.truncate /\ config.max_returned_rows # 0)
    => /\ call.result.kind = "Results"
       /\ call.result.fetched <= C7_Cap + 1
       /\ Len(call.result.rows) = Min(C7_Cap, call.drv.n)
       /\ \A i \in 1..Len(call.result.rows) : call.result.rows[i] = CallCursor[i]
       /\ call.result.truncated <=> (call.drv.n > C7_Cap)

C7_Witness ==
    /\ CallRows /\ call.a.truncate
    /\ config.max_returned_rows = 2 /\ CallPageSize = 10
    /\ call.drv.n = 5
    /\ call.result.truncated
    /\ call.result.rows = <<1, 2>>
    /\ call.result.fetched = 3

(***************************************************************************)
(* C8: when truncate is false the result holds every row the cursor        *)
(* produces and its truncated flag is false, whatever max_returned_rows    *)
(* and the page size are.                                                  *)
(***************************************************************************)
C8_NoTruncate ==
    (CallRows /\ ~call.a.truncate)
    => /\ call.result.kind = "Results"
       /\ call.result.rows = CallCursor
       /\ ~call.result.truncated

C8_Witness ==
    /\ CallRows /\ ~call.a.truncate
    /\ config.max_returned_rows = 2
    /\ call.drv.n = 5
    /\ call.result.rows = <<1, 2, 3, 4, 5>>
    /\ ~call.result.truncated

(***************************************************************************)
(* LiveSpec: the pool with its scheduling.  A worker thread that can take  *)
(* a step takes one (an idle thread takes a queued call; the driver ends a *)
(* statement by finishing it, failing it or reaching a checkpoint), and    *)
(* the event loop resumes a caller whose future is resolved.               *)
(***************************************************************************)
Fairness ==
    /\ \A w \in 1..MaxSqlThreads : WF_vars(w \in Workers /\ WorkerStep(w))
    /\ \A r \in 1..MaxReq : WF_vars(Resume(r))

\* The calls LiveSpec issues: both request forms, on the mutable file.
LiveArgs == {a \in EngineArgs : a.db_name = "mut"}

NextLive ==
    \/ \E a \in LiveArgs : Submit(a)
    \/ \E w \in Workers : WorkerStep(w)
    \/ \E r \in 1..MaxReq : Resume(r)

LiveSpec == Init /\ [][NextLive]_vars /\ Fairness

Executing(w) == wk[w].pc = "executing"

(***************************************************************************)
(* C1: a connection is used only by the thread that opened it and by one   *)
(* query at a time: queries running together on distinct workers, also on  *)
(* the same database name, each run on the worker's own handle, and each   *)
(* can complete with its result whatever the other workers do.             *)
(***************************************************************************)
C1_Affinity ==
    \A w \in Workers :
        Executing(w) =>
            /\ wk[w].conn.owner = w
            /\ wk[w].conn.db = reqs[wk[w].r].a.db_name
            /\ wk[w].conn = connections[w][wk[w].conn.db]
            /\ \A v \in Workers \ {w} :
                  Executing(v) => /\ wk[v].conn # wk[w].conn
                                  /\ wk[v].r # wk[w].r
            /\ ENABLED Finish(w)

C1_Witness ==
    \E w, v \in Workers :
        /\ w # v
        /\ Executing(w) /\ Executing(v)
        /\ reqs[wk[w].r].a.db_name = reqs[wk[v].r].a.db_name
        /\ wk[w].conn.owner = w /\ wk[v].conn.owner = v

(***************************************************************************)
(* C2 as stated: for every (thread, database name) the connection is       *)
(* opened and prepare_connection is run exactly once.                      *)
(***************************************************************************)
C2_Original ==
    \A w \in Workers, d \in DBNames :
        /\ opens[w][d] <= 1
        /\ prepares[w][d] <= 1
        /\ connections[w][d] # NoConn => (opens[w][d] = 1 /\ prepares[w][d] = 1)

(***************************************************************************)
(* C2 amended: for every (thread, database name) a handle is cached by     *)
(* one connect and one prepare_connection that both succeed; from then on  *)
(* every query of that thread on that database, also after an interrupted  *)
(* or failed query, runs on that same handle with no connect and no        *)
(* prepare_connection, so the thread holds at most one handle per name.  A *)
(* connect or prepare_connection that fails caches nothing, and the next   *)
(* query of the thread on that database connects again.                    *)
(***************************************************************************)
C2_Step ==
    \A w \in Workers, d \in DBNames :
        /\ connections[w][d] # NoConn =>
              /\ connections'[w][d] = connections[w][d]
              /\ opens'[w][d] = opens[w][d]
              /\ prepares'[w][d] = prepares[w][d]
        /\ (connections[w][d] = NoConn /\ connections'[w][d] # NoConn) =>
              /\ opens'[w][d] = opens[w][d] + 1
              /\ prepares'[w][d] = prepares[w][d] + 1
              /\ connections'[w][d].owner = w
              /\ connections'[w][d].n = opens'[w][d]
        /\ (wk'[w].pc = "executing" /\ reqs[wk'[w].r].a.db_name = d) =>
              wk'[w].conn = connections'[w][d]

C2_CachedOnce == [][C2_Step]_vars

\* One thread, one connect so far, a query interrupted on the handle and the
\* next query running on the same handle.
C2_Witness ==
    /\ config.num_sql_threads = 1
    /\ \E r \in 1..MaxReq :
          reqs[r].st = "done" /\ reqs[r].future.kind = "QueryInterrupted"
    /\ Executing(1)
    /\ wk[1].conn.n = 1
    /\ \A d \in DBNames : opens[1][d] = (IF d = wk[1].conn.db THEN 1 ELSE 0)

(***************************************************************************)
(* C3: under the fairness of LiveSpec no execute call stays suspended for   *)
(* ever (again and again no call is queued, running or waiting to be       *)
(* resumed; a call that was resumed stays resumed), and a caller is        *)
(* resumed only from a resolved future, which holds a Results value or the *)
(* error raised.                                                           *)
(***************************************************************************)
Suspended(r) == reqs[r].st \in {"queued", "running", "done"}

C3_ResumeStep ==
    \A r \in 1..MaxReq :
        (reqs[r].st # "resumed" /\ reqs'[r].st = "resumed") =>
            /\ reqs[r].st = "done"
            /\ reqs[r].future.kind \in {"Results", "QueryInterrupted", "Error"}

C3_Resumes ==
    /\ []<>(\A r \in 1..MaxReq : ~Suspended(r))
    /\ [][C3_ResumeStep]_vars

C3_Witness ==
    \E r, q \in 1..MaxReq :
        /\ reqs[r].st = "resumed"
        /\ reqs[q].st = "done"
        /\ reqs[q].future.kind = "QueryInterrupted"

(***************************************************************************)
(* C4 as stated: a query whose execution time exceeds its time limit       *)
(* always resolves to QueryInterrupted with its SQL and parameters.        *)
(***************************************************************************)
C4_OriginalStep ==
    \A w \in Workers :
        (/\ Executing(w)
         /\ wk[w].elapsed * TickMs > wk[w].limit
         /\ reqs'[wk[w].r].st = "done")
        => reqs'[wk[w].r].future =
              QueryInterrupted(Interrupted, reqs[wk[w].r].a.sql, reqs[wk[w].r].a.params)

C4_Original == [][C4_OriginalStep]_vars

(***************************************************************************)
(* C4 amended: a query whose statement is aborted by the progress handler  *)
(* (the driver reaches a checkpoint after the time limit has passed)       *)
(* always resolves to QueryInterrupted with the SQL text and parameters of *)
(* that query, never to a generic driver error and never to a Results      *)
(* value.  A statement that runs past its limit and ends before the next   *)
(* checkpoint resolves to its Results or to its own error.                 *)
(***************************************************************************)
C4_Step ==
    \A w \in Workers :
        (/\ Executing(w)
         /\ reqs'[wk[w].r].st = "done"
         /\ reqs'[wk[w].r].fired)
        => /\ wk[w].elapsed * TickMs > wk[w].limit
           /\ reqs'[wk[w].r].future =
                 QueryInterrupted(Interrupted, reqs[wk[w].r].a.sql,
                                  reqs[wk[w].r].a.params)

C4_Interrupted == [][C4_Step]_vars

C4_Witness ==
    \E r \in 1..MaxReq :
        /\ reqs[r].st = "done"
        /\ reqs[r].fired
        /\ reqs[r].future.kind = "QueryInterrupted"
        /\ reqs[r].future.sql = "select * from t where id > ?"
        /\ reqs[r].future.params = "[5]"

(***************************************************************************)
(* C9: an error the statement raises, other than the interrupt sentinel,   *)
(* reaches the caller as that same error, with log_sql_errors set or not;  *)
(* QueryInterrupted is raised for the interrupt sentinel and for nothing   *)
(* else.                                                                   *)
(***************************************************************************)
C9_Unchanged ==
    (call.made /\ call.drv.raises) =>
        IF call.drv.err = Interrupted
        THEN call.result.kind = "QueryInterrupted"
        ELSE /\ call.result.kind = "Error"
             /\ call.result.err = call.drv.err

C9_Witness ==
    /\ call.made
    /\ call.drv = DrvRaise(OperationalError("no such table: t"))
    /\ ~call.a.log_sql_errors
    /\ call.result.kind = "Error"
    /\ call.result.err = OperationalError("no such table: t")

(***************************************************************************)
(* SpecMeta: metadata() calls on a chosen metadata document                *)
(* (Datasette.__init__, line 181: self._metadata = metadata or {}).        *)
(* The documents have a title at any of the three scopes, for database db1 *)
(* and its table t1; db1 can have canned queries (one given as a string,   *)
(* one as a dict) and plugin configuration, as can the global scope.       *)
(***************************************************************************)
TableDicts ==
    {VDict(<<>>), VDict("title" :> VStr("t")), VDict("title" :> VNone)}

TablesOpts ==
    {<<>>} \cup {"tables" :> VDict("t1" :> td) : td \in TableDicts}

QueriesOpts ==
    {<<>>,
     "queries" :> VDict(("q1" :> VStr("select 1"))
                        @@ ("q2" :> VDict("sql" :> VStr("select 2"))))}

DbPluginsOpts ==
    {<<>>, "plugins" :> VDict("other" :> VStr("o")), "plugins" :> VDict("p" :> VStr("dp"))}

GlobalPluginsOpts == {<<>>, "plugins" :> VDict("p" :> VStr("gp"))}

DbDicts ==
    {VDict(t @@ x @@ q @@ pl) :
        t \in {<<>>, "title" :> VStr("d")}, x \in TablesOpts,
        q \in QueriesOpts, pl \in DbPluginsOpts}

DatabasesOpts ==
    {<<>>}
    \cup {"databases" :> VDict("db1" :> dd) : dd \in DbDicts}
    \cup {"databases" :> VDict("db1" :> VNone)}

MetaDocs ==
    {VDict(t @@ x @@ pl) :
        t \in {<<>>, "title" :> VStr("g")}, x \in DatabasesOpts,
        pl \in GlobalPluginsOpts}

MetaKeys == {SomeS("title"), SomeS("tables"), SomeS("databases"), SomeS("license"), NoneS}
MetaDatabases == {NoneS, SomeS("db1"), SomeS("db2")}
MetaTables == {NoneS, SomeS("t1"), SomeS("t2")}
PluginNames == {"p"}
DatabaseNames == {"db1", "db2"}
QueryNames == {"q1", "q2", "q3"}

CallMetadata(key, database, table, fallback) ==
    LET ret == metadata(self_metadata, key, database, table, fallback) IN
    /\ ~mcall.made
    /\ mcall' = [made |-> TRUE, op |-> "metadata", name |-> "", key |-> key,
                 database |-> database, table |-> table, fallback |-> fallback,
                 raised |-> ret.raised, value |-> ret.value]
    /\ UNCHANGED <<config, reqs, nreq, queue, wk, connections, opens, prepares,
                   hook, call, self_metadata, fkcall, caller>>

CallPluginConfig(plugin_name, database, table, fallback) ==
    LET ret == plugin_config(self_metadata, plugin_name, database, table, fallback) IN
    /\ ~mcall.made
    /\ mcall' = [made |-> TRUE, op |-> "plugin_config", name |-> plugin_name,
                 key |-> NoneS, database |-> database, table |-> table,
                 fallback |-> fallback, raised |-> ret.raised, value |-> ret.value]
    /\ UNCHANGED <<config, reqs, nreq, queue, wk, connections, opens, prepares,
                   hook, call, self_metadata, fkcall, caller>>

CallGetCannedQueries(database_name) ==
    LET ret == get_canned_queries(self_metadata, database_name) IN
    /\ ~mcall.made
    /\ mcall' = [made |-> TRUE, op |-> "get_canned_queries", name |-> "",
                 key |-> NoneS, database |-> SomeS(database_name), table |-> NoneS,
                 fallback |-> FALSE, raised |-> FALSE, value |-> ret.value]
    /\ self_metadata' = ret.md
    /\ UNCHANGED <<config, reqs, nreq, queue, wk, connections, opens, prepares,
                   hook, call, fkcall, caller>>

CallGetCannedQuery(database_name, query_name) ==
    LET ret == get_canned_query(self_metadata, database_name, query_name) IN
    /\ ~mcall.made
    /\ mcall' = [made |-> TRUE, op |-> "get_canned_query", name |-> query_name,
                 key |-> NoneS, database |-> SomeS(database_name), table |-> NoneS,
                 fallback |-> FALSE, raised |-> FALSE, value |-> ret.value]
    /\ self_metadata' = ret.md
    /\ UNCHANGED <<config, reqs, nreq, queue, wk, connections, opens, prepares,
                   hook, call, fkcall, caller>>

\* The caller has the value; the next call can be made.
MetaReturn ==
    /\ mcall.made
    /\ mcall' = NoMCall
    /\ UNCHANGED <<config, reqs, nreq, queue, wk, connections, opens, prepares,
                   hook, call, self_metadata, fkcall, caller>>

InitMeta ==
    /\ config = DefaultConfig
    /\ reqs = [r \in 1..MaxReq |-> NoReq]
    /\ nreq = 0
    /\ queue = <<>>
    /\ wk = [w \in Workers |-> IdleWorker]
    /\ connections = [w \in Workers |-> [d \in DBNames |-> NoConn]]
    /\ opens = [w \in Workers |-> [d \in DBNames |-> 0]]
    /\ prepares = [w \in Workers |-> [d \in DBNames |-> 0]]
    /\ hook = [w \in Workers |-> [d \in DBNames |-> FALSE]]
    /\ call = NoCall
    /\ self_metadata \in MetaDocs
    /\ mcall = NoMCall
    /\ fkcall = NoFkCall
    /\ caller = "concurrent"

NextMeta ==
    \/ \E key \in MetaKeys, database \in MetaDatabases, table \in MetaTables,
          fallback \in BOOLEAN : CallMetadata(key, database, table, fallback)
    \/ \E plugin_name \in PluginNames, database \in MetaDatabases,
          table \in MetaTables, fallback \in BOOLEAN :
            CallPluginConfig(plugin_name, database, table, fallback)
    \/ \E database_name \in DatabaseNames : CallGetCannedQueries(database_name)
    \/ \E database_name \in DatabaseNames, query_name \in QueryNames :
            CallGetCannedQuery(database_name, query_name)
    \/ MetaReturn

SpecMeta == InitMeta /\ [][NextMeta]_vars

(***************************************************************************)
(* The scopes of the stored document, read off the document itself: the    *)
(* entry of the database under "databases" and the entry of the table      *)
(* under its "tables", when they are dicts.                                *)
(***************************************************************************)
IsDictAt(f, k) == k \in DOMAIN f /\ f[k].tag = "dict"

DbScopeOf(db) ==
    IF IsDictAt(self_metadata.d, "databases")
       /\ IsDictAt(self_metadata.d["databases"].d, db)
    THEN self_metadata.d["databases"].d[db].d
    ELSE <<>>

TableScopeOf(db, t) ==
    IF IsDictAt(DbScopeOf(db), "tables") /\ IsDictAt(DbScopeOf(db)["tables"].d, t)
    THEN DbScopeOf(db)["tables"].d[t].d
    ELSE <<>>

(***************************************************************************)
(* C10: metadata(key, database, table, fallback=True) returns the value of *)
(* the first scope that defines the key, searching the table scope (if a   *)
(* table is given), then the database scope (if a database is given), then *)
(* the global scope, and None when none of them defines it.                *)
(***************************************************************************)
C10_Expected ==
    LET k == mcall.key.v
        ts == TableScopeOf(mcall.database.v, mcall.table.v)
        ds == DbScopeOf(mcall.database.v) IN
    IF ~mcall.table.isNone /\ k \in DOMAIN ts THEN ts[k]
    ELSE IF ~mcall.database.isNone /\ k \in DOMAIN ds THEN ds[k]
    ELSE IF k \in DOMAIN self_metadata.d THEN self_metadata.d[k]
    ELSE VNone

C10_Cascade ==
    (/\ mcall.made /\ mcall.op = "metadata"
     /\ ~mcall.key.isNone
     /\ mcall.fallback
     /\ mcall.database.isNone => mcall.table.isNone)
    => /\ ~mcall.raised
       /\ mcall.value = C10_Expected

\* The table scope lacks the key, the database scope and the global scope
\* both define it: the database's value is returned.
C10_Witness ==
    /\ mcall.made /\ mcall.op = "metadata" /\ mcall.fallback
    /\ mcall.key = SomeS("title")
    /\ mcall.database = SomeS("db1") /\ mcall.table = SomeS("t1")
    /\ IsDictAt(DbScopeOf("db1"), "tables")
    /\ "t1" \in DOMAIN DbScopeOf("db1")["tables"].d
    /\ "title" \notin DOMAIN TableScopeOf("db1", "t1")
    /\ "title" \in DOMAIN DbScopeOf("db1")
    /\ "title" \in DOMAIN self_metadata.d
    /\ mcall.value = VStr("d")

(***************************************************************************)
(* C11: metadata(key, ..., fallback=False) consults only the innermost     *)
(* scope present (the table's if a table is given, else the database's if  *)
(* a database is given, else the global one): a key defined only in an     *)
(* outer scope gives None, also when the named table or database has no    *)
(* entry at all.                                                           *)
(***************************************************************************)
C11_Expected ==
    LET k == mcall.key.v
        scope == IF ~mcall.table.isNone
                 THEN TableScopeOf(mcall.database.v, mcall.table.v)
                 ELSE IF ~mcall.database.isNone THEN DbScopeOf(mcall.database.v)
                 ELSE self_metadata.d
    IN  IF k \in DOMAIN scope THEN scope[k] ELSE VNone

C11_NoCascade ==
    (/\ mcall.made /\ mcall.op = "metadata"
     /\ ~mcall.key.isNone
     /\ ~mcall.fallback
     /\ mcall.database.isNone => mcall.table.isNone)
    => /\ ~mcall.raised
       /\ mcall.value = C11_Expected

\* The key is defined at the global scope only and the named database has
\* no entry: None.
C11_Witness ==
    /\ mcall.made /\ mcall.op = "metadata" /\ ~mcall.fallback
    /\ mcall.key = SomeS("title")
    /\ mcall.database = SomeS("db2") /\ mcall.table = NoneS
    /\ "title" \in DOMAIN self_metadata.d
    /\ IsDictAt(self_metadata.d, "databases")
    /\ "db2" \notin DOMAIN self_metadata.d["databases"].d
    /\ mcall.value = VNone

(***************************************************************************)
(* C12 as stated: metadata(key=None, ...) returns the union of the         *)
(* applicable scopes, and for a key defined in more than one scope the     *)
(* value of the innermost one (table over database over global).           *)
(***************************************************************************)
C12_Keys ==
    (IF mcall.table.isNone THEN {}
     ELSE DOMAIN TableScopeOf(mcall.database.v, mcall.table.v))
    \cup (IF mcall.database.isNone THEN {} ELSE DOMAIN DbScopeOf(mcall.database.v))
    \cup DOMAIN self_metadata.d

C12_InnermostValue(k) ==
    LET ts == TableScopeOf(mcall.database.v, mcall.table.v)
        ds == DbScopeOf(mcall.database.v) IN
    IF ~mcall.table.isNone /\ k \in DOMAIN ts THEN ts[k]
    ELSE IF ~mcall.database.isNone /\ k \in DOMAIN ds THEN ds[k]
    ELSE self_metadata.d[k]

C12_Original ==
    (/\ mcall.made /\ mcall.op = "metadata"
     /\ mcall.key.isNone
     /\ mcall.fallback
     /\ mcall.database.isNone => mcall.table.isNone)
    => /\ ~mcall.raised
       /\ mcall.value.tag = "dict"
       /\ DOMAIN mcall.value.d = C12_Keys
       /\ \A k \in C12_Keys : mcall.value.d[k] = C12_InnermostValue(k)

(***************************************************************************)
(* C13: metadata with a table and no database fails with an error, for     *)
(* every key (present, absent or None) and every fallback, and returns no  *)
(* value.                                                                  *)
(***************************************************************************)
C13_FailsFast ==
    (/\ mcall.made /\ mcall.op = "metadata"
     /\ mcall.database.isNone /\ ~mcall.table.isNone)
    => /\ mcall.raised
       /\ mcall.value = VNone

\* The key is present at the global scope, a table is named without a
\* database: the call has failed.
C13_Witness ==
    /\ mcall.made /\ mcall.op = "metadata"
    /\ mcall.database.isNone /\ mcall.table = SomeS("t1")
    /\ mcall.key = SomeS("title") /\ "title" \in DOMAIN self_metadata.d
    /\ mcall.raised

(***************************************************************************)
(* C14 as stated: no call of metadata, plugin_config, get_canned_queries   *)
(* or get_canned_query changes the stored metadata: every scope holds      *)
(* exactly the keys and values it held at construction.                    *)
(***************************************************************************)
C14_Original == [][self_metadata' = self_metadata]_vars

(***************************************************************************)
(* expand_foreign_keys, lines 328-363.  Column values are integers or      *)
(* strings; str() of an integer is its decimal text, so the integer 1 and  *)
(* the string "1" are two values with one str().                           *)
(***************************************************************************)
MaxValues == 3

IntV(n) == [ty |-> "int", n |-> n, s |-> ""]
StrV(x) == [ty |-> "str", n |-> 0, s |-> x]

Digits == <<"0", "1", "2", "3", "4", "5", "6", "7", "8", "9">>

str(v) == IF v.ty = "int" THEN Digits[v.n + 1] ELSE v.s

\* set(values)
Distinct(values) == {values[i] : i \in DOMAIN values}

\* The orders list(set(values)) can come out in.
ListsOf(S) ==
    {p \in [1..Cardinality(S) -> S] : {p[i] : i \in 1..Cardinality(S)} = S}

NoForeignKey == [column |-> "", other_table |-> "", other_column |-> ""]

\* Lines 334-341 with the first foreign key of the table taken, whatever
\* its column.
FindFkAnyColumn(foreign_keys, column) ==
    IF foreign_keys = <<>> THEN [found |-> FALSE, fk |-> NoForeignKey]
    ELSE [found |-> TRUE, fk |-> foreign_keys[1]]

\* Lines 334-341: the first foreign key whose column is the column; none is
\* the IndexError.
FindFk(foreign_keys, column) ==
    LET hits == {i \in DOMAIN foreign_keys : foreign_keys[i].column = column} IN
    IF hits = {} THEN [found |-> FALSE, fk |-> NoForeignKey]
    ELSE [found |-> TRUE, fk |-> foreign_keys[CHOOSE i \in hits : \A j \in hits : i <= j]]

\* Line 343: not label_column (None and "" are falsy).
NoLabelColumn(label_column) == label_column.isNone \/ label_column.v = ""

\* Line 344 with the values themselves as labels.
IdentityLabelsRaw(column, values) ==
    [k \in {<<column, v>> : v \in Distinct(values)} |-> k[2].s]

\* Line 344: {(fk["column"], value): str(value) for value in values}
IdentityLabels(column, values) ==
    [k \in {<<column, v>> : v \in Distinct(values)} |-> str(k[2])]

(***************************************************************************)
(* Lines 346-357: the label query.  The SQL text is kept as the arguments  *)
(* of its format string: the three identifiers (each passed through        *)
(* escape_sqlite) and the comma-joined list that stands in the in (...)    *)
(* clause; params is the list bound to it.                                 *)
(***************************************************************************)
LabelQueryInterpolated(database, foreign_key, label_column, values, params) ==
    [database |-> database,
     sql |-> [other_column |-> foreign_key.other_column,
              label_column |-> label_column,
              other_table |-> foreign_key.other_table,
              placeholders |-> [i \in 1..Len(values) |-> str(values[i])]],
     params |-> <<>>]

LabelQuery(database, foreign_key, label_column, values, params) ==
    [database |-> database,
     sql |-> [other_column |-> foreign_key.other_column,
              label_column |-> label_column,
              other_table |-> foreign_key.other_table,
              placeholders |-> [i \in 1..Cardinality(Distinct(values)) |-> "?"]],
     params |-> params]

\* The label the referenced table holds for a key.
LabelOf(v) == IF v.ty = "int" THEN "label " \o Digits[v.n + 1] ELSE "label '" \o v.s \o "'"

\* execute(database, sql, params) with its defaults (line 483-492).
LabelExecuteArgs(q) ==
    [db_name |-> q.database, sql |-> q.sql, params |-> q.params, truncate |-> FALSE,
     custom_time_limit |-> None, page_size |-> None, log_sql_errors |-> TRUE]

\* Lines 356-363 with no except clause.
CollectLabelsNoCatch(column, params, outcome) ==
    IF outcome.kind = "Results"
    THEN [outcome |-> "returned", err |-> NoError,
          result |-> [k \in {<<column, params[outcome.rows[i]]>> :
                                i \in DOMAIN outcome.rows} |-> LabelOf(k[2])]]
    ELSE [outcome |-> "raised", err |-> outcome.err, result |-> <<>>]

\* Lines 356-363: row i of the results is (params[i], label of params[i]).
CollectLabels(column, params, outcome) ==
    IF outcome.kind = "QueryInterrupted"
    THEN [outcome |-> "returned", err |-> NoError, result |-> <<>>]
    ELSE IF outcome.kind = "Error"
    THEN [outcome |-> "raised", err |-> outcome.err, result |-> <<>>]
    ELSE [outcome |-> "returned", err |-> NoError,
          result |-> [k \in {<<column, params[outcome.rows[i]]>> :
                                i \in DOMAIN outcome.rows} |-> LabelOf(k[2])]]

(***************************************************************************)
(* expand_foreign_keys(database, table, column, values), where             *)
(* foreign_keys is what foreign_keys_for_table(table) returned,            *)
(* label_column what label_column_for_table returned, params the order of  *)
(* list(set(values)) and drv what the driver did with the label query.     *)
(***************************************************************************)
expand_foreign_keys(database, column, values, foreign_keys, label_column, params, drv) ==
    LET hit == FindFk(foreign_keys, column) IN
    IF ~hit.found
    THEN [outcome |-> "returned", err |-> NoError, result |-> <<>>, queries |-> <<>>]
    ELSE IF NoLabelColumn(label_column)
    THEN [outcome |-> "returned", err |-> NoError,
          result |-> IdentityLabels(hit.fk.column, values), queries |-> <<>>]
    ELSE LET q == LabelQuery(database, hit.fk, label_column.v, values, params)
             got == CollectLabels(hit.fk.column, params,
                                  SqlOperation(LabelExecuteArgs(q), config, drv))
         IN  [outcome |-> got.outcome, err |-> got.err, result |-> got.result,
              queries |-> <<q>>]

(***************************************************************************)
(* SpecFk: expand_foreign_keys calls, one at a time, on chosen foreign     *)
(* keys of the table, a chosen label column of the referenced table and,   *)
(* for a call that issues the label query, a chosen order of the distinct  *)
(* values and a chosen behaviour of the driver.                            *)
(***************************************************************************)
FkValues == {IntV(1), IntV(2), StrV("1")}

FkValueLists == UNION {[1..n -> FkValues] : n \in 0..MaxValues}

ForeignKeyLists ==
    LET a1 == [column |-> "a", other_table |-> "t1", other_column |-> "id"]
        a2 == [column |-> "a", other_table |-> "t2", other_column |-> "pk"]
        b1 == [column |-> "b", other_table |-> "t3", other_column |-> "id"]
    IN  {<<>>, <<a1>>, <<b1>>, <<b1, a1>>, <<a1, a2>>}

FkColumns == {"a", "c"}

LabelColumns == {NoneS, SomeS(""), SomeS("name")}

FkDrivers(values) ==
    {DrvRows(n) : n \in 0..Cardinality(Distinct(values))}
    \cup {DrvRaise(e) : e \in {Interrupted} \cup StatementErrors}

ExpandForeignKeys(database, column, values, foreign_keys, label_column, params, drv) ==
    LET ret == expand_foreign_keys(database, column, values, foreign_keys,
                                   label_column, params, drv)
        asked == ret.queries # <<>>
    IN  /\ ~fkcall.made
        /\ fkcall' = [made |-> TRUE, database |-> database, column |-> column,
                      values |-> values, foreign_keys |-> foreign_keys,
                      label_column |-> label_column,
                      params |-> IF asked THEN params ELSE <<>>,
                      drv |-> IF asked THEN drv ELSE DrvRows(0),
                      outcome |-> ret.outcome, err |-> ret.err,
                      result |-> ret.result, queries |-> ret.queries]
        /\ UNCHANGED <<config, reqs, nreq, queue, wk, connections, opens, prepares,
                       hook, call, self_metadata, mcall, caller>>

\* The caller has the mapping (or the error); the next call can be made.
FkReturn ==
    /\ fkcall.made
    /\ fkcall' = NoFkCall
    /\ UNCHANGED <<config, reqs, nreq, queue, wk, connections, opens, prepares,
                   hook, call, self_metadata, mcall, caller>>

InitFk ==
    /\ config = DefaultConfig
    /\ reqs = [r \in 1..MaxReq |-> NoReq]
    /\ nreq = 0
    /\ queue = <<>>
    /\ wk = [w \in Workers |-> IdleWorker]
    /\ connections = [w \in Workers |-> [d \in DBNames |-> NoConn]]
    /\ opens = [w \in Workers |-> [d \in DBNames |-> 0]]
    /\ prepares = [w \in Workers |-> [d \in DBNames |-> 0]]
    /\ hook = [w \in Workers |-> [d \in DBNames |-> FALSE]]
    /\ call = NoCall
    /\ self_metadata = EmptyMetadata
    /\ mcall = NoMCall
    /\ fkcall = NoFkCall
    /\ caller = "concurrent"

NextFk ==
    \/ \E column \in FkColumns, values \in FkValueLists,
          foreign_keys \in ForeignKeyLists, label_column \in LabelColumns :
          LET asks == FindFk(foreign_keys, column).found /\ ~NoLabelColumn(label_column)
          IN  \E params \in (IF asks THEN ListsOf(Distinct(values)) ELSE {<<>>}),
                 drv \in (IF asks THEN FkDrivers(values) ELSE {DrvRows(0)}) :
                ExpandForeignKeys("mut", column, values, foreign_keys, label_column,
                                  params, drv)
    \/ FkReturn

SpecFk == InitFk /\ [][NextFk]_vars

\* The call found a foreign key of its column and a label column.
FkAsked ==
    /\ fkcall.made
    /\ \E i \in DOMAIN fkcall.foreign_keys : fkcall.foreign_keys[i].column = fkcall.column
    /\ ~fkcall.label_column.isNone /\ fkcall.label_column.v # ""

(***************************************************************************)
(* C15: when the label query is interrupted, expand_foreign_keys returns   *)
(* an empty mapping, never a partly filled one; any other error of the     *)
(* label query is raised in the caller of expand_foreign_keys.             *)
(***************************************************************************)
C15_Interrupted ==
    (FkAsked /\ fkcall.drv.raises)
    => IF fkcall.drv.err = Interrupted
       THEN fkcall.outcome = "returned" /\ DOMAIN fkcall.result = {}
       ELSE fkcall.outcome = "raised" /\ fkcall.err = fkcall.drv.err

C15_Witness ==
    /\ FkAsked /\ fkcall.drv = DrvRaise(Interrupted)
    /\ Len(fkcall.values) = MaxValues
    /\ fkcall.outcome = "returned" /\ fkcall.result = <<>>

(***************************************************************************)
(* C16: for a foreign-key column whose referenced table has no label       *)
(* column, expand_foreign_keys returns {(column, v): str(v)} with an entry *)
(* for every distinct v of the input values, and issues no label query.    *)
(***************************************************************************)
C16_Identity ==
    (/\ fkcall.made
     /\ \E i \in DOMAIN fkcall.foreign_keys : fkcall.foreign_keys[i].column = fkcall.column
     /\ fkcall.label_column.isNone \/ fkcall.label_column.v = "")
    => /\ fkcall.outcome = "returned"
       /\ DOMAIN fkcall.result =
            {<<fkcall.column, fkcall.values[i]>> : i \in DOMAIN fkcall.values}
       /\ \A i \in DOMAIN fkcall.values :
            fkcall.result[<<fkcall.column, fkcall.values[i]>>] = str(fkcall.values[i])
       /\ fkcall.queries = <<>>

C16_Witness ==
    /\ fkcall.made /\ fkcall.column = "a" /\ fkcall.label_column = NoneS
    /\ fkcall.foreign_keys # <<>> /\ fkcall.foreign_keys[1].column = "a"
    /\ fkcall.values = <<IntV(1), StrV("1"), IntV(1)>>
    /\ fkcall.result[<<"a", IntV(1)>>] = "1"
    /\ fkcall.result[<<"a", StrV("1")>>] = "1"
    /\ Cardinality(DOMAIN fkcall.result) = 2

(***************************************************************************)
(* C17: for a column that is not the source column of any foreign key of   *)
(* the table, expand_foreign_keys returns an empty mapping and submits no  *)
(* query for labels.                                                       *)
(***************************************************************************)
C17_NoForeignKey ==
    (/\ fkcall.made
     /\ \A i \in DOMAIN fkcall.foreign_keys : fkcall.foreign_keys[i].column # fkcall.column)
    => /\ fkcall.outcome = "returned"
       /\ DOMAIN fkcall.result = {}
       /\ fkcall.queries = <<>>

\* The table has a foreign key, on another column, and values are given.
C17_Witness ==
    /\ fkcall.made /\ fkcall.column = "a"
    /\ Len(fkcall.foreign_keys) = 1 /\ fkcall.foreign_keys[1].column = "b"
    /\ fkcall.label_column = SomeS("name")
    /\ fkcall.values # <<>>
    /\ fkcall.outcome = "returned" /\ fkcall.result = <<>> /\ fkcall.queries = <<>>

(***************************************************************************)
(* C18: when a label column exists, expand_foreign_keys submits exactly    *)
(* one query through execute, whose parameters are the distinct input      *)
(* values, each once, bound to placeholders; no input value is put into    *)
(* the SQL text, which is made of the identifiers of the foreign key and   *)
(* the label column and of one ? for each parameter.                       *)
(***************************************************************************)
C18_FirstFk ==
    fkcall.foreign_keys[CHOOSE i \in DOMAIN fkcall.foreign_keys :
        /\ fkcall.foreign_keys[i].column = fkcall.column
        /\ \A j \in 1..(i - 1) : fkcall.foreign_keys[j].column # fkcall.column]

C18_OneQuery ==
    FkAsked
    => /\ Len(fkcall.queries) = 1
       /\ LET q == fkcall.queries[1] IN
          /\ q.database = fkcall.database
          /\ {q.params[i] : i \in DOMAIN q.params}
                = {fkcall.values[i] : i \in DOMAIN fkcall.values}
          /\ \A i, j \in DOMAIN q.params : q.params[i] = q.params[j] => i = j
          /\ DOMAIN q.sql.placeholders = DOMAIN q.params
          /\ \A i \in DOMAIN q.sql.placeholders : q.sql.placeholders[i] = "?"
          /\ q.sql.other_column = C18_FirstFk.other_column
          /\ q.sql.other_table = C18_FirstFk.other_table
          /\ q.sql.label_column = fkcall.label_column.v

\* Values with a repetition: two parameters for three values.
C18_Witness ==
    /\ FkAsked /\ Len(fkcall.queries) = 1
    /\ fkcall.values = <<IntV(2), StrV("1"), IntV(2)>>
    /\ Len(fkcall.queries[1].params) = 2
    /\ fkcall.drv = DrvRows(2)
    /\ Cardinality(DOMAIN fkcall.result) = 2

(***************************************************************************)
(* C19: two execute calls with the same SQL, parameters, truncate flag,    *)
(* page size and time limit on a database that is not modified return the  *)
(* same rows and the same truncated flag, whichever threads run them and   *)
(* however they are scheduled: the Results a call resolves to is a         *)
(* function of its arguments alone.                                        *)
(***************************************************************************)
C19_ResultsOf(a) ==
    Assemble(CursorRows(NRows(a.db_name, a.sql)), a.truncate,
             max_returned_rows_default,
             EffectivePageSize(a.page_size, default_page_size))

C19_Step ==
    \A w \in Workers :
        (/\ Executing(w)
         /\ reqs'[wk[w].r].st = "done"
         /\ reqs'[wk[w].r].future.kind = "Results")
        => /\ reqs'[wk[w].r].future.rows = C19_ResultsOf(reqs[wk[w].r].a).rows
           /\ reqs'[wk[w].r].future.truncated
                 = C19_ResultsOf(reqs[wk[w].r].a).truncated

C20_Ordering ==
    /\ caller = "serial" =>
          \A r \in 1..MaxReq :
              reqs[r].st \in {"queued", "running", "done"}
              => /\ \A q \in 1..(r - 1) : reqs[q].st = "resumed"
                 /\ \A q \in (r + 1)..MaxReq : reqs[q].st = "unused"
    /\ \A w \in Workers, v \in Workers :
          (w # v /\ Executing(w) /\ Executing(v))
          => ENABLED Finish(w) /\ ENABLED Finish(v)

\* Submitted second, completed first.
C20_Witness ==
    /\ caller = "concurrent"
    /\ reqs[1].st = "running"
    /\ reqs[2].st = "done" /\ reqs[2].future.kind = "Results"

\* The serial caller's second call is running after its first was resumed.
C20_SerialWitness ==
    /\ caller = "serial"
    /\ reqs[1].st = "resumed" /\ reqs[2].st = "running"

(***************************************************************************)
(* SpecOpen: the pool with one thread and calls on each of the three       *)
(* databases (in memory, mutable file, immutable file).                    *)
(***************************************************************************)
OpenArgs ==
    [db_name : DBNames, sql : {"select 1"}, params : {"None"},
     truncate : {TRUE}, custom_time_limit : {None}, page_size : {None},
     log_sql_errors : {TRUE}]

InitOpen ==
    /\ config = [DefaultConfig EXCEPT !.num_sql_threads = 1]
    /\ reqs = [r \in 1..MaxReq |-> NoReq]
    /\ nreq = 0
    /\ queue = <<>>
    /\ wk = [w \in Workers |-> IdleWorker]
    /\ connections = [w \in Workers |-> [d \in DBNames |-> NoConn]]
    /\ opens = [w \in Workers |-> [d \in DBNames |-> 0]]
    /\ prepares = [w \in Workers |-> [d \in DBNames |-> 0]]
    /\ hook = [w \in Workers |-> [d \in DBNames |-> FALSE]]
    /\ call = NoCall
    /\ self_metadata = EmptyMetadata
    /\ mcall = NoMCall
    /\ fkcall = NoFkCall
    /\ caller = "concurrent"

NextOpen ==
    \/ \E a \in OpenArgs : Submit(a)
    \/ \E w \in Workers : WorkerStep(w)
    \/ \E r \in 1..MaxReq : Resume(r)

SpecOpen == InitOpen /\ [][NextOpen]_vars

(***************************************************************************)
(* C21: a newly opened connection is never writable on a file: the memory  *)
(* database is opened as a private :memory: connection, a mutable file     *)
(* with mode=ro and a file listed in immutables with immutable=1.          *)
(***************************************************************************)
C21_HowOpened(conn) ==
    /\ conn.db \in DBNames
    /\ databases(conn.db).is_memory => conn.qs = ":memory:"
    /\ (~databases(conn.db).is_memory /\ databases(conn.db).is_mutable)
          => conn.qs = "mode=ro"
    /\ (~databases(conn.db).is_memory /\ ~databases(conn.db).is_mutable)
          => conn.qs = "immutable=1"

C21_ReadOnly ==
    \A w \in Workers :
        /\ \A d \in DBNames :
              connections[w][d] # NoConn
              => connections[w][d].db = d /\ C21_HowOpened(connections[w][d])
        /\ wk[w].pc = "executing" => C21_HowOpened(wk[w].conn)

\* The thread has opened the immutable file and the mutable file.
C21_Witness ==
    /\ connections[1]["imm"] # NoConn /\ connections[1]["imm"].qs = "immutable=1"
    /\ connections[1]["mut"] # NoConn /\ connections[1]["mut"].qs = "mode=ro"

(***************************************************************************)
(* C22: the time-limit hook is installed on a connection only while one    *)
(* statement runs on it: once the call has returned on a worker, by a      *)
(* result, by QueryInterrupted or by another error, the worker's           *)
(* connection has no hook, and the next statement on the connection is     *)
(* timed from its own start.                                               *)
(***************************************************************************)
C22_HookStep ==
    \A w \in Workers :
        /\ (Executing(w) /\ wk'[w].pc = "idle")
              => \A d \in DBNames : ~hook'[w][d]
        /\ (~Executing(w) /\ wk'[w].pc = "executing")
              => /\ wk'[w].elapsed = 0
                 /\ hook'[w][wk'[w].conn.db]

C22_HookScoped ==
    /\ [](\A w \in Workers, d \in DBNames :
            hook[w][d] <=> (Executing(w) /\ wk[w].conn = connections[w][d]))
    /\ [][C22_HookStep]_vars

\* A statement was interrupted on the worker's connection: the worker is
\* idle, the connection is cached and has no hook.
C22_Witness ==
    /\ wk[1].pc = "idle"
    /\ connections[1]["mut"] # NoConn
    /\ ~hook[1]["mut"]
    /\ \E r \in 1..MaxReq :
          reqs[r].st = "done" /\ reqs[r].future.kind = "QueryInterrupted"

(***************************************************************************)
(* C23: every query submitted through execute is run by one worker thread, *)
(* once: no two workers take the same call, and a call that failed or was  *)
(* interrupted is not run again.                                           *)
(***************************************************************************)
C23_TakenOnce ==
    /\ \A i, j \in DOMAIN queue : queue[i] = queue[j] => i = j
    /\ \A r \in 1..MaxReq :
          /\ (\E i \in DOMAIN queue : queue[i] = r) <=> reqs[r].st = "queued"
          /\ reqs[r].st = "running"
                <=> Cardinality({w \in Workers : Executing(w) /\ wk[w].r = r}) = 1
          /\ Cardinality({w \in Workers : Executing(w) /\ wk[w].r = r}) <= 1

C23_Step ==
    \A r \in 1..MaxReq :
        /\ (reqs[r].st # "running" /\ reqs'[r].st = "running") => reqs[r].st = "queued"
        /\ (reqs[r].st # "queued" /\ reqs'[r].st = "queued") => reqs[r].st = "unused"
        /\ reqs[r].st = "running" => reqs'[r].st \in {"running", "done"}
        /\ reqs[r].st = "done" => reqs'[r].st \in {"done", "resumed"}
        /\ reqs[r].st = "resumed" => reqs'[r].st = "resumed"
        /\ \A w \in Workers :
              (Executing(w) /\ wk[w].r = r /\ wk'[w].pc = "executing") => wk'[w].r = r

C23_ExactlyOnce == []C23_TakenOnce /\ [][C23_Step]_vars

\* Both workers are idle again, the first call failed, the second was
\* interrupted, and nothing is queued.
C23_Witness ==
    /\ nreq = 2 /\ queue = <<>>
    /\ \A w \in Workers : wk[w].pc = "idle"
    /\ reqs[1].st = "done" /\ reqs[1].future.kind = "Error"
    /\ reqs[2].st = "done" /\ reqs[2].future.kind = "QueryInterrupted"

(***************************************************************************)
(* C24: the number of queries being executed is never more than            *)
(* num_sql_threads (3 by default); a query submitted while every worker is *)
(* busy waits in the pool's queue, and the scheduler that submits is not   *)
(* blocked: it can submit again.                                           *)
(***************************************************************************)
C24_Running == {r \in 1..MaxReq : reqs[r].st = "running"}

C24_PoolBound ==
    /\ num_sql_threads_default = 3
    /\ DefaultConfig.num_sql_threads = num_sql_threads_default
    /\ Cardinality(C24_Running) <= config.num_sql_threads
    /\ Cardinality({w \in DOMAIN wk : wk[w].pc = "executing"}) <= config.num_sql_threads
    /\ \A r \in 1..MaxReq :
          reqs[r].st = "queued" => \E i \in DOMAIN queue : queue[i] = r
    /\ (caller = "concurrent" /\ nreq < MaxReq) => ENABLED (\E a \in EngineArgs : Submit(a))

\* A pool of one thread is busy, a second call waits in the queue.
C24_Witness ==
    /\ config.num_sql_threads = 1
    /\ Executing(1) /\ wk[1].r = 1
    /\ queue = <<2>> /\ reqs[2].st = "queued"

(***************************************************************************)
(* C26: when opening or preparing a connection fails, the error reaches    *)
(* the caller of execute as it was raised, the open is not tried again in  *)
(* that call, and the worker's cache gets no entry for the database: a     *)
(* handle is in a cache only if prepare_connection completed on it.        *)
(***************************************************************************)
C26_OpenErrors ==
    {OperationalError("unable to open database file"), OperationalError("not authorized")}

C26_Step ==
    \A r \in 1..MaxReq :
        (reqs[r].st = "queued" /\ reqs'[r].st = "done")
        => /\ reqs'[r].future.kind = "Error"
           /\ reqs'[r].future.err \in C26_OpenErrors
           /\ connections' = connections
           /\ wk' = wk
           /\ \E w \in Workers :
                 /\ opens'[w][reqs[r].a.db_name] = opens[w][reqs[r].a.db_name] + 1
                 /\ \A v \in Workers, d \in DBNames :
                       (v # w \/ d # reqs[r].a.db_name) => opens'[v][d] = opens[v][d]
                 /\ connections[w][reqs[r].a.db_name] = NoConn
           /\ reqs'[r].future.err = OperationalError("unable to open database file")
                 => prepares' = prepares

C26_NoCacheOnFailure ==
    /\ [](\A w \in Workers, d \in DBNames :
            connections[w][d] # NoConn
            => /\ prepares[w][d] >= 1
               /\ connections[w][d].n = opens[w][d])
    /\ [][C26_Step]_vars

\* A call failed in prepare_connection and one failed in connect: both
\* errors are with the callers and the caches are empty.
C26_Witness ==
    /\ reqs[1].st = "done" /\ reqs[1].future = Raised(OperationalError("not authorized"), FALSE)
    /\ reqs[2].st = "done"
    /\ reqs[2].future = Raised(OperationalError("unable to open database file"), FALSE)
    /\ \A w \in Workers, d \in DBNames : connections[w][d] = NoConn

(***************************************************************************)
(* C28 as stated: the number of connections ever opened for one database   *)
(* name is at most the number of worker threads, however many queries ran  *)
(* and however many of them failed or were interrupted.                    *)
(***************************************************************************)
RECURSIVE C28_Sum(_, _)
C28_Sum(f, S) ==
    IF S = {} THEN 0
    ELSE LET x == CHOOSE y \in S : TRUE IN f[x] + C28_Sum(f, S \ {x})

\* Connections opened for a name: the connects that succeeded, each of them
\* followed by prepare_connection.
C28_Opened(d) == C28_Sum([w \in Workers |-> prepares[w][d]], Workers)

C28_Original ==
    \A d \in DBNames : C28_Opened(d) <= config.num_sql_threads

(***************************************************************************)
(* C28 amended: the connections cached for one database name are at most   *)
(* the number of worker threads, and queries that run, fail or are         *)
(* interrupted on a cached connection open nothing; a connection is opened *)
(* only by a call of a thread that has none cached for the name, and a     *)
(* call whose prepare_connection fails leaves none cached, so the          *)
(* connections opened for a name are at most the worker threads plus the   *)
(* calls that failed in prepare_connection.                                *)
(***************************************************************************)
C28_OpenStep ==
    \A w \in Workers, d \in DBNames :
        prepares'[w][d] # prepares[w][d]
        => /\ prepares'[w][d] = prepares[w][d] + 1
           /\ connections[w][d] = NoConn
           /\ \/ connections'[w][d] # NoConn
              \/ \E r \in 1..MaxReq :
                    /\ reqs[r].st = "queued" /\ reqs[r].a.db_name = d
                    /\ reqs'[r].st = "done"
                    /\ reqs'[r].future = Raised(OperationalError("not authorized"), FALSE)

C28_OpensBounded ==
    /\ [](\A d \in DBNames :
            Cardinality({w \in Workers : connections[w][d] # NoConn})
                <= config.num_sql_threads)
    /\ [][C28_OpenStep]_vars

\* One thread, two connections opened for the name: the first call failed
\* in prepare_connection, the second opened again and runs.
C28_Witness ==
    /\ config.num_sql_threads = 1
    /\ prepares[1]["mut"] = 2
    /\ connections[1]["mut"] # NoConn /\ connections[1]["mut"].n = 2
    /\ Executing(1)

(***************************************************************************)
(* The caller abandons a call it awaits (its task is cancelled while it is *)
(* suspended at line 481).  The cancellation reaches the executor's        *)
(* future: a call still on the queue is cancelled and never runs; a call a *)
(* thread is running cannot be cancelled, and in_thread goes on.           *)
(***************************************************************************)
AbandonStops(r) ==
    \/ /\ reqs[r].st = "queued"
       /\ reqs' = [reqs EXCEPT ![r] = [NoReq EXCEPT !.st = "cancelled"]]
       /\ queue' = SelectSeq(queue, LAMBDA x : x # r)
       /\ UNCHANGED <<config, nreq, wk, connections, opens, prepares, hook,
                      call, self_metadata, mcall, fkcall, caller>>
    \/ /\ reqs[r].st = "running"
       /\ reqs' = [reqs EXCEPT ![r] = [NoReq EXCEPT !.st = "dropped"]]
       /\ wk' = [w \in Workers |-> IF wk[w].pc = "executing" /\ wk[w].r = r
                                   THEN IdleWorker ELSE wk[w]]
       /\ hook' = [w \in Workers |-> [d \in DBNames |->
                     IF wk[w].pc = "executing" /\ wk[w].r = r THEN FALSE ELSE hook[w][d]]]
       /\ UNCHANGED <<config, nreq, queue, connections, opens, prepares,
                      call, self_metadata, mcall, fkcall, caller>>

Abandon(r) ==
    \/ /\ reqs[r].st = "queued"
       /\ reqs' = [reqs EXCEPT ![r] = [NoReq EXCEPT !.st = "cancelled"]]
       /\ queue' = SelectSeq(queue, LAMBDA x : x # r)
       /\ UNCHANGED <<config, nreq, wk, connections, opens, prepares, hook,
                      call, self_metadata, mcall, fkcall, caller>>
    \/ /\ reqs[r].st = "running"
       /\ reqs' = [reqs EXCEPT ![r].st = "abandoned"]
       /\ UNCHANGED <<config, nreq, queue, wk, connections, opens, prepares, hook,
                      call, self_metadata, mcall, fkcall, caller>>

(***************************************************************************)
(* SpecAbandon: the pool with callers that can abandon their calls.        *)
(***************************************************************************)
NextAbandon ==
    \/ \E a \in LiveArgs : Submit(a)
    \/ \E w \in Workers : WorkerStep(w)
    \/ \E r \in 1..MaxReq : Resume(r)
    \/ \E r \in 1..MaxReq : Abandon(r)

SpecAbandon == Init /\ [][NextAbandon]_vars

(***************************************************************************)
(* C25: once a query has been dispatched to a worker, the caller           *)
(* abandoning the result does not stop it: the statement runs until it     *)
(* finishes (or fails) or its own deadline interrupts it, and it occupies  *)
(* its worker all that time.                                               *)
(***************************************************************************)
C25_Step ==
    /\ \A r \in 1..MaxReq :
          (reqs[r].st = "running" /\ reqs'[r].st \notin {"running", "done"})
          => /\ reqs'[r].st = "abandoned"
             /\ wk' = wk /\ hook' = hook /\ queue' = queue
    /\ \A w \in Workers :
          (Executing(w) /\ reqs[wk[w].r].st = "abandoned")
          => \/ /\ wk'[w] = wk[w]
                /\ reqs'[wk[w].r].st = "abandoned"
             \/ /\ wk'[w] = [wk[w] EXCEPT !.elapsed = @ + 1]
                /\ reqs'[wk[w].r].st = "abandoned"
             \/ /\ wk'[w].pc = "idle"
                /\ reqs'[wk[w].r].st = "dropped"
                /\ reqs'[wk[w].r].future.kind \in {"Results", "Error", "QueryInterrupted"}
                /\ reqs'[wk[w].r].future.kind = "QueryInterrupted"
                      => wk[w].elapsed * TickMs > wk[w].limit

C25_RunsOn ==
    /\ [](\A r \in 1..MaxReq :
            reqs[r].st = "abandoned"
            => Cardinality({w \in Workers : Executing(w) /\ wk[w].r = r}) = 1)
    /\ [][C25_Step]_vars

\* The only thread of the pool still runs an abandoned statement while the
\* next call waits in the queue.
C25_Witness ==
    /\ config.num_sql_threads = 1
    /\ Executing(1) /\ wk[1].r = 1 /\ reqs[1].st = "abandoned"
    /\ wk[1].elapsed >= 1
    /\ queue = <<2>>

(***************************************************************************)
(* C27 as stated: plugin_config(plugin_name, database, table) returns the  *)
(* plugin's configuration from the first of the table scope, the database  *)
(* scope and the global scope that configures the plugin: a plugin         *)
(* configured only at an outer scope is found also when an inner scope has *)
(* a plugins entry that does not mention it, and None is returned only     *)
(* when no scope configures the plugin.                                    *)
(***************************************************************************)
C27_Configures(scope, plugin_name) ==
    IsDictAt(scope, "plugins") /\ plugin_name \in DOMAIN scope["plugins"].d

C27_Expected ==
    LET ts == TableScopeOf(mcall.database.v, mcall.table.v)
        ds == DbScopeOf(mcall.database.v) IN
    IF ~mcall.table.isNone /\ C27_Configures(ts, mcall.name)
    THEN ts["plugins"].d[mcall.name]
    ELSE IF ~mcall.database.isNone /\ C27_Configures(ds, mcall.name)
    THEN ds["plugins"].d[mcall.name]
    ELSE IF C27_Configures(self_metadata.d, mcall.name)
    THEN self_metadata.d["plugins"].d[mcall.name]
    ELSE VNone

C27_Original ==
    (/\ mcall.made /\ mcall.op = "plugin_config"
     /\ mcall.fallback
     /\ mcall.database.isNone => mcall.table.isNone)
    => /\ ~mcall.raised
       /\ mcall.value = C27_Expected

====
